---- MODULE Spec2Model ----
(***************************************************************************)
(* Model of src/server.js: the Express handlers of the students resource   *)
(* over a file-backed JSON store (db.read / db.write / db.update).         *)
(*                                                                         *)
(* server.js carries every route twice: a first copy (lines 63-315) and a  *)
(* second copy (lines 423-618).  The copies of list, create and update are *)
(* the same code; the copies of get-by-id and delete differ, and a request *)
(* is served by either one (field ver of the request).                     *)
(* database.js is not part of the sources; the store is modelled from the  *)
(* specification: read() reloads the in-memory state from the file,        *)
(* write() persists it, update(fn) applies fn to it and then persists it.  *)
(*                                                                         *)
(* A handler is an async function: it runs without interruption up to an   *)
(* await on the store and is resumed when the store operation settles, so  *)
(* an action is one such run between two suspensions.                      *)
(***************************************************************************)
EXTENDS Integers, Sequences, FiniteSets, TLC

\* ---- bounds ----
NumProcs == 2        \* requests that can be in flight together
MaxRequests == 3     \* requests received in one behaviour
MaxSerial == 4       \* requests received in one behaviour when served one at a time
MaxIds == 2          \* identifiers uuidv4() hands out in one behaviour

Procs == 1..NumProcs

VARIABLES
  mem,        \* db.data.students, the in-memory collection
  disk,       \* the students array of the persisted JSON document
  wq,         \* writes handed to the store and not yet settled, in order
  req,        \* per request slot: position and local variables of the handler
  started,    \* number of requests received so far; also the clock
  nextId,     \* next identifier uuidv4() returns
  last,       \* the request answered last: what was sent, and any error raised
  live,       \* students returned by a 201 and not targeted by an update or delete since
  serial      \* the client sends a request only after the previous one was answered

vars == <<mem, disk, wq, req, last, started, nextId, live, serial>>

\* ---- values ----
NoData == [none |-> TRUE]            \* no body sent yet / local not assigned
Undefined == [undefined |-> TRUE]    \* the JavaScript value undefined
EmptyBody == [k \in {} |-> 0]        \* the payload {}

\* An id is a string or a number; v is the number its decimal text spells.
StrId(n) == [t |-> "str", v |-> n]
NumId(n) == [t |-> "num", v |-> n]

\* String(x) of an id: "7" and 7 have the same text.
String(x) == x.v

\* req.params.id is always a string; 0 is an identifier no student ever gets.
ParamIds == {StrId(n) : n \in 0..(nextId - 1)}

\* Payloads of POST /api/students.
CreateBodies ==
  { [name |-> "Ada", email |-> "ada@x.com"],
    [email |-> "ada@x.com"],
    [name |-> "Ada", email |-> ""] }

\* Payloads of PUT /api/students/:id: an arbitrary field map.
UpdateBodies ==
  { [email |-> "new@x.com", grade |-> "A"],
    [updatedAt |-> 0],
    [id |-> NumId(1)] }
  \cup { [id |-> StrId(n)] : n \in 1..(nextId - 1) }

\* !x for a payload field: missing (undefined) or the empty string.
Falsy(body, k) == k \notin DOMAIN body \/ body[k] = ""

\* if (!name || !email)
InvalidMut(body) == Falsy(body, "name") /\ Falsy(body, "email")
Invalid(body) == Falsy(body, "name") \/ Falsy(body, "email")

\* students.findIndex(s => String(s.id) === String(id)); 0 stands for -1.
\* (FindIndexMut: a -1 used as a position counts from the end of the array.)
FindIndexMut(students, id) ==
  LET hits == {i \in 1..Len(students) : String(students[i].id) = String(id)}
  IN IF hits = {} THEN Len(students) ELSE CHOOSE i \in hits : \A j \in hits : i <= j
FindIndex(students, id) ==
  LET hits == {i \in 1..Len(students) : String(students[i].id) = String(id)}
  IN IF hits = {} THEN 0 ELSE CHOOSE i \in hits : \A j \in hits : i <= j

\* { ...old, ...changes, updatedAt: now }
MergeMut(old, changes, now) ==
  [k \in DOMAIN old \cup DOMAIN changes \cup {"updatedAt"} |->
     IF k = "updatedAt" THEN now
     ELSE IF k \in DOMAIN old THEN old[k] ELSE changes[k]]
Merge(old, changes, now) ==
  [k \in DOMAIN old \cup DOMAIN changes \cup {"updatedAt"} |->
     IF k = "updatedAt" THEN now
     ELSE IF k \in DOMAIN changes THEN changes[k] ELSE old[k]]

\* students.splice(index, 1): the array without its index-th entry.
Splice(students, index) ==
  [i \in 1..(Len(students) - 1) |->
     IF i < index THEN students[i] ELSE students[i + 1]]

\* new Date(): the clock shows the number of requests received.
Now == started

\* { id: uuidv4(), name, email, createdAt }: a field that is undefined is
\* not part of the JSON document.
NewStudent(body, id, now) ==
  [k \in {"id", "createdAt"} \cup ({"name", "email"} \cap DOMAIN body) |->
     IF k = "id" THEN id ELSE IF k = "createdAt" THEN now ELSE body[k]]

\* ---- requests ----
\* A handler in flight: where it is suspended and its local variables.
NewReq(pc, op, ver, id, body) ==
  [pc |-> pc, op |-> op, ver |-> ver, id |-> id, body |-> body,
   buf |-> <<>>, idx |-> 0, local |-> NoData, liveAtRead |-> {}]

\* A slot with no request in it.
NoReq == NewReq("idle", "none", 1, StrId(0), EmptyBody)

\* What a request was answered: res.status(s).json(d), sent once.
Send(r, s, d) ==
  [op |-> r.op, status |-> s, data |-> d, sends |-> 1, err |-> "none",
   escaped |-> FALSE]

\* catch (error) { res.status(500).json(...) } on a response not sent yet.
Caught(r, e) == [Send(r, 500, [error |-> e]) EXCEPT !.err = e]

\* The handler in slot p returns, having answered a.
Answer(p, a) ==
  /\ req' = [req EXCEPT ![p] = NoReq]
  /\ last' = a

\* A request takes the lowest slot that holds no request in flight.
Idle(p) == req[p].pc = "idle"
Free(p) ==
  /\ Idle(p)
  /\ \A q \in 1..(p - 1) : ~Idle(q)
  /\ serial => \A q \in Procs : Idle(q)
  /\ started < (IF serial THEN MaxSerial ELSE MaxRequests)

Start ==
  /\ mem = <<>>
  /\ disk = <<>>
  /\ wq = <<>>
  /\ req = [p \in Procs |-> NoReq]
  /\ last = Send(NoReq, 0, NoData)
  /\ started = 0
  /\ nextId = 1
  /\ live = {}

Init == Start /\ serial = FALSE

SerialInit == Start /\ serial = TRUE

\* app.use('*'): no route matched.
Fallback(p) ==
  /\ Free(p)
  /\ started' = started + 1
  /\ Answer(p, Send(NewReq("idle", "fallback", 1, StrId(0), EmptyBody), 404,
                    [requestedUrl |-> TRUE]))
  /\ UNCHANGED <<mem, disk, wq, nextId, live, serial>>

\* A handler that opens with await db.read(): list, get-by-id, update, delete.
\* The store reads the file when read() is called; the handler is resumed
\* with that content later, after any number of steps of other requests.
BeginRead(p, op, ver, id, body) ==
  /\ Free(p)
  /\ started' = started + 1
  /\ req' = [req EXCEPT ![p] =
               [NewReq("loaded", op, ver, id, body)
                  EXCEPT !.buf = disk,
                         !.liveAtRead = IF op = "get" THEN live ELSE {}]]
  /\ UNCHANGED <<mem, disk, wq, last, nextId, live, serial>>

ListStudents(p) ==
  \E id \in {StrId(0)} : BeginRead(p, "list", 1, id, EmptyBody)

GetStudent(p) ==
  \E ver \in {1, 2}, id \in ParamIds : BeginRead(p, "get", ver, id, EmptyBody)

UpdateStudent(p) ==
  \E id \in ParamIds, body \in UpdateBodies : BeginRead(p, "update", 1, id, body)

DeleteStudent(p) ==
  \E ver \in {1, 2}, id \in ParamIds : BeginRead(p, "delete", ver, id, EmptyBody)

\* POST /api/students up to the await inside db.update().
CreateStudent(p) ==
  \E body \in CreateBodies :
    /\ Free(p)
    /\ started' = started + 1
    /\ IF Invalid(body)
         THEN /\ Answer(p, Send(NewReq("idle", "create", 1, StrId(0), body), 400,
                                [message |-> "required"]))
              /\ UNCHANGED <<mem, wq, nextId>>
         ELSE /\ nextId <= MaxIds
              /\ LET newStudent == NewStudent(body, StrId(nextId), started')
                 IN /\ mem' = Append(mem, newStudent)
                    /\ wq' = Append(wq, [p |-> p, snap |-> mem'])
                    /\ req' = [req EXCEPT ![p] =
                                 [NewReq("writing", "create", 1, StrId(0), body)
                                    EXCEPT !.local = newStudent]]
              /\ nextId' = nextId + 1
              /\ UNCHANGED last
    /\ UNCHANGED <<disk, live, serial>>

\* db.read() rejects: the handler's catch answers 500.
ReadFail(p) ==
  /\ req[p].pc = "loaded"
  /\ Answer(p, Caught(req[p], "store"))
  /\ UNCHANGED <<mem, disk, wq, started, nextId, live, serial>>

\* GET /api/students after db.read() resolved.
ListResume(p) ==
  /\ req[p].pc = "loaded" /\ req[p].op = "list"
  /\ mem' = req[p].buf
  /\ Answer(p, Send(req[p], 200, [list |-> mem', count |-> Len(mem')]))
  /\ UNCHANGED <<disk, wq, started, nextId, live, serial>>

\* GET /api/students/:id after db.read() resolved.
GetResume(p) ==
  /\ req[p].pc = "loaded" /\ req[p].op = "get"
  /\ mem' = req[p].buf
  /\ LET index == FindIndex(mem', req[p].id)
     IN IF index = 0
          THEN Answer(p, Send(req[p], 404, [message |-> "not found"]))
          ELSE IF req[p].ver = 2
            THEN Answer(p, Send(req[p], 200, mem'[index]))
            \* first copy: after the 200, `item` is not defined; the catch
            \* sends again on a response already sent, which throws inside
            \* the catch block and rejects the handler's promise
            ELSE Answer(p, [Send(req[p], 200, mem'[index])
                              EXCEPT !.err = "ReferenceError", !.sends = 2,
                                     !.escaped = TRUE])
  /\ UNCHANGED <<disk, wq, started, nextId, live, serial>>

SameText(s, id) == s.id.v = id.v

\* PUT /api/students/:id after db.read() resolved, up to await db.write().
UpdateResume(p) ==
  /\ req[p].pc = "loaded" /\ req[p].op = "update"
  /\ LET data == req[p].buf
         index == FindIndex(data, req[p].id)
     IN IF index = 0
          THEN /\ mem' = data
               /\ Answer(p, Send(req[p], 404, [message |-> "not found"]))
               /\ UNCHANGED <<wq, live>>
          ELSE /\ mem' = [data EXCEPT ![index] = Merge(data[index], req[p].body, Now)]
               /\ wq' = Append(wq, [p |-> p, snap |-> mem'])
               /\ req' = [req EXCEPT ![p].pc = "writing", ![p].idx = index]
               /\ live' = {s \in live : ~SameText(s, req[p].id)}
               /\ UNCHANGED last
  /\ UNCHANGED <<disk, started, nextId, serial>>

\* DELETE /api/students/:id after db.read() resolved, up to the await in db.update().
DeleteResume(p) ==
  /\ req[p].pc = "loaded" /\ req[p].op = "delete"
  /\ LET data == req[p].buf
         index == FindIndex(data, req[p].id)
     IN IF index = 0
          THEN /\ mem' = data
               /\ Answer(p, Send(req[p], 404, [message |-> "not found"]))
               /\ UNCHANGED <<wq, live>>
          ELSE /\ mem' = Splice(data, index)
               /\ wq' = Append(wq, [p |-> p, snap |-> mem'])
               /\ req' = [req EXCEPT ![p].pc = "writing", ![p].idx = index,
                                     ![p].local = data[index]]
               /\ live' = {s \in live : ~SameText(s, req[p].id)}
               /\ UNCHANGED last
  /\ UNCHANGED <<disk, started, nextId, serial>>

\* The oldest pending write reaches the file and its handler resumes.
Lands(p, op) ==
  /\ wq # <<>> /\ Head(wq).p = p
  /\ req[p].pc = "writing" /\ req[p].op = op
  /\ disk' = Head(wq).snap
  /\ wq' = Tail(wq)

\* POST: res.status(201).json({ data: newStudent })
CreateRespond(p) ==
  /\ Lands(p, "create")
  /\ Answer(p, Send(req[p], 201, req[p].local))
  /\ live' = live \cup {req[p].local}
  /\ UNCHANGED <<mem, started, nextId, serial>>

\* PUT: res.status(200).json({ data: db.data.students[index] })
UpdateRespond(p) ==
  /\ Lands(p, "update")
  /\ Answer(p, Send(req[p], 200,
                    IF req[p].idx <= Len(mem) THEN mem[req[p].idx] ELSE Undefined))
  /\ UNCHANGED <<mem, started, nextId, live, serial>>

\* DELETE: the first copy names `deletedItem`, which is not defined, and its
\* catch answers 500; the second copy answers 200 with removedStudent.
DeleteRespond(p) ==
  /\ Lands(p, "delete")
  /\ Answer(p, IF req[p].ver = 1 THEN Caught(req[p], "ReferenceError")
               ELSE Send(req[p], 200, req[p].local))
  /\ UNCHANGED <<mem, started, nextId, live, serial>>

\* The oldest pending write fails: db.write()/db.update() rejects, catch answers 500.
WriteFail(p) ==
  /\ wq # <<>> /\ Head(wq).p = p
  /\ req[p].pc = "writing"
  /\ wq' = Tail(wq)
  /\ Answer(p, Caught(req[p], "store"))
  /\ UNCHANGED <<mem, disk, started, nextId, live, serial>>

Next ==
  \E p \in Procs :
    \/ Fallback(p)
    \/ ListStudents(p)
    \/ GetStudent(p)
    \/ CreateStudent(p)
    \/ UpdateStudent(p)
    \/ DeleteStudent(p)
    \/ ReadFail(p)
    \/ ListResume(p)
    \/ GetResume(p)
    \/ UpdateResume(p)
    \/ DeleteResume(p)
    \/ CreateRespond(p)
    \/ UpdateRespond(p)
    \/ DeleteRespond(p)
    \/ WriteFail(p)

Spec == Init /\ [][Next]_vars

\* The same server driven by a client that waits for each answer.
SerialSpec == SerialInit /\ [][Next]_vars

TypeOK ==
  /\ started \in 0..(IF serial THEN MaxSerial ELSE MaxRequests)
  /\ nextId \in 1..(MaxIds + 1)
  /\ Len(wq) <= NumProcs

\* ---- vocabulary of the properties ----
\* Two ids with the same string form.
SameStr(a, b) == a.v = b.v

\* No student of the collection has the requested id.
NoMatch(students, id) == \A i \in 1..Len(students) : ~SameStr(students[i].id, id)

\* The payload has no non-empty value for name, or none for email.
Lacks(body) ==
  \E k \in {"name", "email"} : ~(k \in DOMAIN body /\ body[k] # "")

\* The handler in slot p, suspended at pc in op, answers in this step.
Answers(p, op, pc) ==
  req[p].op = op /\ req[p].pc = pc /\ req'[p].pc = "idle"

\* C1: no two students of the collection, in memory or persisted, have ids
\* with the same string form.
C1_UniqueIds ==
  \A c \in {mem, disk} : \A i, j \in 1..Len(c) :
    i # j => ~SameStr(c[i].id, c[j].id)

\* C2: an update answered 200 leaves the id of the student it targeted as it
\* was when the update loaded it.
C2_IdImmutable ==
  [][\A p \in Procs :
       (Answers(p, "update", "writing") /\ last'.status = 200)
         => disk'[req[p].idx].id = req[p].buf[req[p].idx].id]_vars

\* C3: a delete that found its student and whose store write did not fail
\* answers 200 with the entity as it was, persists the loaded collection less
\* that one entry, the others in order, and no student with that id remains
\* (so a later get-by-id finds none and answers 404).
C3_DeleteContract ==
  [][\A p \in Procs :
       (Answers(p, "delete", "writing") /\ last'.err # "store")
         => /\ last'.status = 200
            /\ last'.data = req[p].buf[req[p].idx]
            /\ Len(disk') = Len(req[p].buf) - 1
            /\ \A i \in 1..Len(disk') :
                 disk'[i] = req[p].buf[IF i < req[p].idx THEN i ELSE i + 1]
            /\ NoMatch(disk', req[p].id)]_vars

\* C4: a create whose payload lacks a non-empty name or email is answered 400
\* in the step it arrives: it is never left suspended on the store (no read
\* issued, no write queued), and the in-memory and persisted collections are
\* untouched.
C4_InvalidCreate ==
  [][/\ \A p \in Procs :
          (req'[p] # req[p] /\ req'[p].op = "create") => ~Lacks(req'[p].body)
     /\ (req' = req /\ started' # started /\ last'.op = "create")
          => /\ last'.status = 400 /\ last'.sends = 1
             /\ mem' = mem /\ disk' = disk /\ wq' = wq]_vars

C4_Witness ==
  /\ last.op = "create" /\ last.status = 400 /\ last.sends = 1
  /\ disk # <<>> /\ mem = disk

\* C5: an update or delete whose store read did not fail and that loaded a
\* collection in which no student has the requested id answers 404, queues
\* no write, leaves the persisted collection as it is and the in-memory
\* collection equal to what it loaded.
C5_NotFound ==
  [][\A p \in Procs :
       (req[p].pc = "loaded" /\ req[p].op \in {"update", "delete"}
          /\ req'[p] # req[p] /\ last'.err # "store"
          /\ NoMatch(req[p].buf, req[p].id))
         => /\ req'[p].pc = "idle"
            /\ last'.op = req[p].op /\ last'.status = 404 /\ last'.sends = 1
            /\ disk' = disk /\ wq' = wq /\ mem' = req[p].buf]_vars

C5_Witness ==
  /\ last.op \in {"update", "delete"} /\ last.status = 404
  /\ disk # <<>> /\ mem = disk

\* C6: a get-by-id whose store read did not fail answers 200 with S when S,
\* returned by a 201 and not targeted by an update or delete when the store
\* was read, has the requested id; and answers 404 for an id no student was
\* ever given.
C6_GetCreated ==
  [][\A p \in Procs :
       (Answers(p, "get", "loaded") /\ last'.err # "store")
         => /\ \A s \in req[p].liveAtRead :
                 SameStr(s.id, req[p].id)
                   => last'.status = 200 /\ last'.data = s
            /\ req[p].id.v \notin 1..(nextId - 1) => last'.status = 404]_vars

\* The entity an update persisted at the position it matched.
Persisted(p) == disk'[req[p].idx]

\* The other students of the loaded collection are persisted as they were.
OthersKept(p) ==
  /\ Len(disk') = Len(req[p].buf)
  /\ \A i \in 1..Len(disk') : i # req[p].idx => disk'[i] = req[p].buf[i]

C8_ErrorsCaught ==
  /\ ~last.escaped
  /\ last.err # "none" => last.status = 500

\* C9: the write of a create answered 201 changes the persisted collection by
\* appending the new student and nothing else.
C9_AppendOnly ==
  [][\A p \in Procs :
       (Answers(p, "create", "writing") /\ last'.status = 201)
         => disk' = Append(disk, req[p].local)]_vars

\* C10: a handler never sends twice, and a request that was handled to the
\* end has been sent exactly one response.
C10_OneResponse ==
  last.op # "none" => last.sends = 1
====
